---- MODULE Spec2Model ----
(***************************************************************************)
(* Marvel Snap blog translator (src/app.py): the translate button handler, *)
(* translate_blog, create_zip_file and the session's stored translations.  *)
(* Strings are sequences of one-character strings, so that Python's        *)
(* substring test `code in file.name` and str.endswith are computed.       *)
(* A Python dict is a sequence of [k, v] records in insertion order.       *)
(***************************************************************************)
EXTENDS Integers, Sequences, FiniteSets, TLC

VARIABLES
    session,        \* st.session_state.translations
    english_html,   \* value of the text area when the button is pressed
    uploaded_files, \* value of the file uploader when the button is pressed
    api_key,        \* TRUE iff ANTHROPIC_API_KEY is configured
    translations,   \* the handler's local dict `translations` (TranslationInput)
    results,        \* translate_blog's local dict `results` (TranslationOutput)
    idx,            \* position of translate_blog's loop in LANGUAGES
    pc,             \* position of the script
    notices,        \* st.error / st.warning / st.success messages of this rerun
    calls,          \* log of client.messages.create invocations of this run
    archive,        \* entries of the ZIP rendered by the results section
    lang_codes,     \* the handler's lang_code for each uploaded file, in order
    before          \* session state as it was when the button was pressed

vars == <<session, english_html, uploaded_files, api_key, translations,
          results, idx, pc, notices, calls, archive, lang_codes, before>>

----------------------------------------------------------------------------
(* Bounds *)

MaxFiles == 2

----------------------------------------------------------------------------
(* Language registry *)

spa   == <<"s","p","a">>
spaM9 == <<"s","p","a","-","M","9">>
tha   == <<"t","h","a">>
zhoCN == <<"z","h","o","-","C","N">>
zhoTW == <<"z","h","o","-","T","W">>
fre   == <<"f","r","e">>
ger   == <<"g","e","r">>
ita   == <<"i","t","a">>
jpn   == <<"j","p","n">>
kor   == <<"k","o","r">>
porBR == <<"p","o","r","-","B","R">>
rus   == <<"r","u","s">>

\* variant: the more specific code spa-M9 listed before spa
LanguagesM9First ==
    << [code |-> spaM9, name |-> "Spanish Mexico"],
       [code |-> spa,   name |-> "Spanish"],
       [code |-> tha,   name |-> "Thai"],
       [code |-> zhoCN, name |-> "Simplified Chinese"],
       [code |-> zhoTW, name |-> "Traditional Chinese"],
       [code |-> fre,   name |-> "French"],
       [code |-> ger,   name |-> "German"],
       [code |-> ita,   name |-> "Italian"],
       [code |-> jpn,   name |-> "Japanese"],
       [code |-> kor,   name |-> "Korean"],
       [code |-> porBR, name |-> "Portuguese Brazil"],
       [code |-> rus,   name |-> "Russian"] >>

LANGUAGES ==
    << [code |-> spa,   name |-> "Spanish"],
       [code |-> spaM9, name |-> "Spanish Mexico"],
       [code |-> tha,   name |-> "Thai"],
       [code |-> zhoCN, name |-> "Simplified Chinese"],
       [code |-> zhoTW, name |-> "Traditional Chinese"],
       [code |-> fre,   name |-> "French"],
       [code |-> ger,   name |-> "German"],
       [code |-> ita,   name |-> "Italian"],
       [code |-> jpn,   name |-> "Japanese"],
       [code |-> kor,   name |-> "Korean"],
       [code |-> porBR, name |-> "Portuguese Brazil"],
       [code |-> rus,   name |-> "Russian"] >>

NumLanguages == Len(LANGUAGES)

----------------------------------------------------------------------------
(* Python str and dict primitives *)

\* `sub in s` for two str values
Contains(sub, s) ==
    \E k \in 0..(Len(s) - Len(sub)) : SubSeq(s, k + 1, k + Len(sub)) = sub

\* s.endswith(suffix)
EndsWith(s, suffix) ==
    /\ Len(suffix) <= Len(s)
    /\ SubSeq(s, Len(s) - Len(suffix) + 1, Len(s)) = suffix

\* `k in d`
DictHas(d, k) == \E i \in 1..Len(d) : d[i].k = k

\* d[k], for a key of d
DictGet(d, k) == d[CHOOSE i \in 1..Len(d) : d[i].k = k].v

\* variant: d.setdefault(k, v), the first value written stays
DictSetDefault(d, k, v) ==
    IF DictHas(d, k) THEN d ELSE Append(d, [k |-> k, v |-> v])

\* d[k] = v : an existing key keeps its position, a new key is appended
DictSet(d, k, v) ==
    IF DictHas(d, k)
    THEN [i \in 1..Len(d) |-> IF d[i].k = k THEN [k |-> k, v |-> v] ELSE d[i]]
    ELSE Append(d, [k |-> k, v |-> v])

Keys(d) == {d[i].k : i \in 1..Len(d)}

----------------------------------------------------------------------------
(* read_file_content *)

TxtExt  == <<".","t","x","t">>
DocxExt == <<".","d","o","c","x">>

\* bytes.decode('utf-8') restricted to the bytes used here: 65 and 66 are
\* ASCII letters, 255 never occurs in well-formed UTF-8.
Chr(b) == IF b = 65 THEN "A" ELSE "B"

Utf8Decode(bytes) ==
    IF \E i \in 1..Len(bytes) : bytes[i] > 127
    THEN [ok |-> FALSE, text |-> <<>>]
    ELSE [ok |-> TRUE,  text |-> [i \in 1..Len(bytes) |-> Chr(bytes[i])]]

\* '\n'.join(paragraphs)
RECURSIVE JoinLines(_)
JoinLines(paras) ==
    IF paras = <<>> THEN <<>>
    ELSE IF Len(paras) = 1 THEN paras[1]
    ELSE paras[1] \o <<"\n">> \o JoinLines(Tail(paras))

\* A file is [name, bytes, docx, paras]: docx says whether python-docx can
\* open the bytes, paras are the paragraph texts it then yields.
\* The result is [ok, text]; ok = FALSE stands for the None of the except
\* branch.
read_file_content(file) ==
    IF EndsWith(file.name, TxtExt) THEN Utf8Decode(file.bytes)
    ELSE IF EndsWith(file.name, DocxExt)
         THEN IF file.docx
              THEN [ok |-> TRUE, text |-> JoinLines(file.paras)]
              ELSE [ok |-> FALSE, text |-> <<>>]
         ELSE Utf8Decode(file.bytes)

----------------------------------------------------------------------------
(* Filename matching and the handler's input loop *)

\* lang_code = None
NoMatch == <<>>

\* variant: the loop without its break, the last matching code wins
RECURSIVE MatchLast(_, _)
MatchLast(name, i) ==
    IF i > Len(LANGUAGES) THEN NoMatch
    ELSE LET rest == MatchLast(name, i + 1)
         IN  IF rest # NoMatch THEN rest
             ELSE IF Contains(LANGUAGES[i].code, name) THEN LANGUAGES[i].code
             ELSE NoMatch

\* for code in LANGUAGES.keys(): if code in file.name: lang_code = code; break
RECURSIVE MatchFrom(_, _)
MatchFrom(name, i) ==
    IF i > NumLanguages THEN NoMatch
    ELSE IF Contains(LANGUAGES[i].code, name) THEN LANGUAGES[i].code
    ELSE MatchFrom(name, i + 1)

IdentifyLanguage(name) == MatchFrom(name, 1)

\* for file in uploaded_files: ... translations[lang_code] = content
RECURSIVE ReadFiles(_, _, _)
ReadFiles(files, i, d) ==
    IF i > Len(files) THEN d
    ELSE LET lang_code == IdentifyLanguage(files[i].name)
             content   == read_file_content(files[i])
         IN  IF lang_code # NoMatch /\ content.ok /\ content.text # <<>>
             THEN ReadFiles(files, i + 1, DictSet(d, lang_code, content.text))
             ELSE ReadFiles(files, i + 1, d)

\* the st.error notices of read_file_content during that loop
RECURSIVE ReadNotices(_, _)
ReadNotices(files, i) ==
    IF i > Len(files) THEN <<>>
    ELSE LET lang_code == IdentifyLanguage(files[i].name)
         IN  IF lang_code # NoMatch /\ ~read_file_content(files[i]).ok
             THEN <<[kind |-> "error_reading", about |-> files[i].name]>>
                      \o ReadNotices(files, i + 1)
             ELSE ReadNotices(files, i + 1)

----------------------------------------------------------------------------
(* create_zip_file *)

ZipPrefix == <<"m","a","r","v","e","l","_","s","n","a","p","_",
               "b","l","o","g","_">>
HtmlExt   == <<".","h","t","m","l">>

\* variant: entries named like the individual downloads, blog_{code}.html
create_zip_file_blog_names(d) ==
    [i \in 1..Len(d) |->
        [name |-> <<"b","l","o","g","_">> \o d[i].k \o HtmlExt, data |-> d[i].v]]

create_zip_file(d) ==
    [i \in 1..Len(d) |->
        [name |-> ZipPrefix \o d[i].k \o HtmlExt, data |-> d[i].v]]

\* what the results section renders: the ZIP only for a non-empty dict
NoArchive == <<>>
ResultsSection(d) == IF d # <<>> THEN create_zip_file(d) ELSE NoArchive

----------------------------------------------------------------------------
(* Inputs: uploaded files *)

TxtFile(name, bytes) ==
    [name |-> name, bytes |-> bytes, docx |-> FALSE, paras |-> <<>>]
DocxFile(name, ok, paras) ==
    [name |-> name, bytes |-> <<>>, docx |-> ok, paras |-> paras]

FilePool ==
    { TxtFile(spa \o TxtExt, <<65>>),
      TxtFile(<<"v","2","_">> \o spa \o TxtExt, <<66>>),
      DocxFile(tha \o DocxExt, TRUE, << <<"A">>, <<"B">> >>),
      TxtFile(<<"v","3","_">> \o spa \o TxtExt, <<255>>),
      TxtFile(<<"v","4","_">> \o spa \o TxtExt, <<>>) }

\* further files: a name without a code, one with two codes, an empty file, an unreadable and an
\* empty document, a name for spa-M9
SpaM9File == TxtFile(spaM9 \o TxtExt, <<66, 65>>)
SpaFile   == TxtFile(spa \o TxtExt, <<65>>)
MoreFiles ==
    { SpaM9File,
      TxtFile(<<"n","o","t","e","s">> \o TxtExt, <<65>>),
      TxtFile(rus \o <<"_">> \o zhoTW \o TxtExt, <<65>>),
      TxtFile(ger \o TxtExt, <<>>),
      TxtFile(kor \o TxtExt, <<255>>),
      DocxFile(fre \o DocxExt, FALSE, <<>>),
      DocxFile(ita \o DocxExt, TRUE, <<>>) }

\* every upload of at most MaxFiles files from the pool, the empty one included
Batches == UNION { [1..n -> FilePool] : n \in 0..MaxFiles }

\* one file per required code, named <code>.txt, each with non-empty text
AllTwelve ==
    [i \in 1..NumLanguages |->
        TxtFile(LANGUAGES[i].code \o TxtExt,
                IF LANGUAGES[i].code = spaM9 THEN <<66>> ELSE <<65>>)]

\* file names that carry zero, one or two registry codes
Junk == <<"x","y">>
SampleNames ==
    { a \o <<"_">> \o b \o TxtExt :
        a \in {LANGUAGES[i].code : i \in 1..NumLanguages} \cup {Junk},
        b \in {LANGUAGES[i].code : i \in 1..NumLanguages} \cup {Junk} }

BigBatches ==
    {AllTwelve, <<SpaFile, SpaM9File>>, <<SpaM9File, SpaFile>>}
        \cup { <<TxtFile(n, <<65>>)>> : n \in SampleNames }
        \cup { <<f>> : f \in FilePool \cup MoreFiles }

Htmls == { <<>>, <<"<","p",">","H","i","<","/","p",">">> }

----------------------------------------------------------------------------
(* The translation service: opaque, it answers with some HTML or raises.   *)
(* The program never inspects the answer, so one answer per input text,    *)
(* which differs from language to language only with the input, is drawn.  *)

Wrap(text) == <<"<","p",">">> \o text \o <<"<","/","p",">">>
Replies(text) == { Wrap(text) }

----------------------------------------------------------------------------
(* State machine *)

Notice(kind, about) == [kind |-> kind, about |-> about]

Resting == {"idle", "rejected", "stopped", "done"}

Init ==
    /\ session = <<>>
    /\ english_html = <<>>
    /\ uploaded_files = <<>>
    /\ api_key = TRUE
    /\ translations = <<>>
    /\ results = <<>>
    /\ idx = 1
    /\ pc = "idle"
    /\ notices = <<>>
    /\ calls = <<>>
    /\ archive = NoArchive
    /\ lang_codes = <<>>
    /\ before = <<>>

\* variant: a rejected press also clears the stored translations
RerunClearing(html, files, key) ==
    /\ pc \in Resting
    /\ english_html' = html
    /\ uploaded_files' = files
    /\ api_key' = key
    /\ before' = session
    /\ translations' = <<>>
    /\ results' = <<>>
    /\ idx' = 1
    /\ calls' = <<>>
    /\ lang_codes' = <<>>
    /\ session' = <<>>

\* a rerun of the script that does not reach translate_blog: the handler's
\* locals do not exist, the widgets it did not read are not recorded
Rerun(html, files, key) ==
    /\ pc \in Resting
    /\ english_html' = html
    /\ uploaded_files' = files
    /\ api_key' = key
    /\ before' = session
    /\ translations' = <<>>
    /\ results' = <<>>
    /\ idx' = 1
    /\ calls' = <<>>
    /\ lang_codes' = <<>>
    /\ UNCHANGED session

\* if not english_html: st.error(...)
RejectNoHtml ==
    /\ Rerun(<<>>, <<>>, TRUE)
    /\ notices' = <<Notice("error_no_html", "")>>
    /\ pc' = "rejected"
    /\ archive' = ResultsSection(session)

\* elif not uploaded_files: st.error(...)
RejectNoFiles ==
    \E html \in Htmls \ {<<>>} :
        /\ Rerun(html, <<>>, TRUE)
        /\ notices' = <<Notice("error_no_files", "")>>
        /\ pc' = "rejected"
        /\ archive' = ResultsSection(session)

\* client = init_anthropic(); if not client: st.stop()
StopNoKey ==
    \E html \in Htmls \ {<<>>}, files \in Batches \ {<<>>} :
        /\ Rerun(html, files, FALSE)
        /\ notices' = <<Notice("error_no_key", "")>>
        /\ pc' = "stopped"
        /\ archive' = NoArchive

\* the else branch up to the call of translate_blog
Accept(batches) ==
    \E html \in Htmls \ {<<>>}, files \in batches \ {<<>>} :
        /\ pc \in Resting
        /\ english_html' = html
        /\ uploaded_files' = files
        /\ api_key' = TRUE
        /\ before' = session
        /\ lang_codes' = [i \in 1..Len(files) |-> IdentifyLanguage(files[i].name)]
        /\ translations' = ReadFiles(files, 1, <<>>)
        /\ notices' = ReadNotices(files, 1)
        /\ results' = <<>>
        /\ idx' = 1
        /\ calls' = <<>>
        /\ archive' = NoArchive
        /\ pc' = "loop"
        /\ UNCHANGED session

Translate == Accept(Batches)

\* the first run of a fresh session
TranslateFirst == pc = "idle" /\ Accept(BigBatches)

InLoop == pc = "loop" /\ idx <= NumLanguages
Lang == LANGUAGES[idx]

\* variant: the test without its `or not translations[lang_code]` half
HasInputAnyValue(d, code) == DictHas(d, code)

HasInput(d, code) == DictHas(d, code) /\ DictGet(d, code) # <<>>

\* if lang_code not in translations or not translations[lang_code]: continue
Skip ==
    /\ InLoop
    /\ ~HasInput(translations, Lang.code)
    /\ notices' = Append(notices, Notice("warning_missing", Lang.name))
    /\ idx' = idx + 1
    /\ UNCHANGED <<session, english_html, uploaded_files, api_key,
                   translations, results, pc, calls, archive, lang_codes, before>>

\* client.messages.create(...) is entered
CallStart ==
    /\ InLoop
    /\ HasInput(translations, Lang.code)
    /\ calls' = Append(calls, [ev |-> "start", code |-> Lang.code])
    /\ pc' = "call"
    /\ UNCHANGED <<session, english_html, uploaded_files, api_key,
                   translations, results, idx, notices, archive, lang_codes, before>>

\* the call returns: results[lang_code] = response.content[0].text
CallReturn ==
    /\ pc = "call"
    /\ \E text \in Replies(DictGet(translations, Lang.code)) :
           results' = DictSet(results, Lang.code, text)
    /\ calls' = Append(calls, [ev |-> "return", code |-> Lang.code])
    /\ notices' = Append(notices, Notice("success", Lang.name))
    /\ idx' = idx + 1
    /\ pc' = "loop"
    /\ UNCHANGED <<session, english_html, uploaded_files, api_key,
                   translations, archive, lang_codes, before>>

\* variant: the exception ends the loop
CallFailAbort ==
    /\ pc = "call"
    /\ calls' = Append(calls, [ev |-> "raise", code |-> Lang.code])
    /\ notices' = Append(notices, Notice("error_translating", Lang.name))
    /\ pc' = "returned"
    /\ UNCHANGED <<session, english_html, uploaded_files, api_key,
                   translations, results, idx, archive, lang_codes, before>>

\* variant: a failed language is tried again
CallFailRetry ==
    /\ pc = "call"
    /\ calls' = Append(calls, [ev |-> "raise", code |-> Lang.code])
    /\ notices' = Append(notices, Notice("error_translating", Lang.name))
    /\ pc' = "loop"
    /\ UNCHANGED <<session, english_html, uploaded_files, api_key,
                   translations, results, idx, archive, lang_codes, before>>

\* except Exception as e: st.error(...)
CallFail ==
    /\ pc = "call"
    /\ calls' = Append(calls, [ev |-> "raise", code |-> Lang.code])
    /\ notices' = Append(notices, Notice("error_translating", Lang.name))
    /\ idx' = idx + 1
    /\ pc' = "loop"
    /\ UNCHANGED <<session, english_html, uploaded_files, api_key,
                   translations, results, archive, lang_codes, before>>

\* return results
Return ==
    /\ pc = "loop"
    /\ idx > NumLanguages
    /\ pc' = "returned"
    /\ UNCHANGED <<session, english_html, uploaded_files, api_key,
                   translations, results, idx, notices, calls, archive,
                   lang_codes, before>>

\* dict.update: the entries of e written into d
RECURSIVE Update(_, _)
Update(d, e) ==
    IF e = <<>> THEN d ELSE Update(DictSet(d, e[1].k, e[1].v), Tail(e))

\* variant: the new results are merged into the stored ones
StoreMerging ==
    /\ pc = "returned"
    /\ session' = Update(session, results)
    /\ notices' = Append(notices, Notice("completed", ""))
    /\ archive' = ResultsSection(Update(session, results))
    /\ pc' = "done"
    /\ UNCHANGED <<english_html, uploaded_files, api_key, translations,
                   results, idx, calls, lang_codes, before>>

\* st.session_state.translations = results, then the results section
Store ==
    /\ pc = "returned"
    /\ session' = results
    /\ notices' = Append(notices, Notice("completed", ""))
    /\ archive' = ResultsSection(results)
    /\ pc' = "done"
    /\ UNCHANGED <<english_html, uploaded_files, api_key, translations,
                   results, idx, calls, lang_codes, before>>

Next ==
    \/ RejectNoHtml
    \/ RejectNoFiles
    \/ StopNoKey
    \/ Translate
    \/ Skip
    \/ CallStart
    \/ CallReturn
    \/ CallFail
    \/ Return
    \/ Store

Spec == Init /\ [][Next]_vars

\* one run of a fresh session over a full upload or a sample file name
NextAll ==
    \/ TranslateFirst
    \/ Skip
    \/ CallStart
    \/ CallReturn
    \/ CallFail
    \/ Return
    \/ Store

SpecAll == Init /\ [][NextAll]_vars

----------------------------------------------------------------------------
(* translate_blog on its own, called with an arbitrary TranslationInput *)

eng == <<"e","n","g">>
DirectKeys == <<spa, spaM9, rus, eng>>
Shapes == {"absent", "empty", "text"}

RECURSIVE MakeInput(_, _)
MakeInput(shape, i) ==
    IF i > Len(DirectKeys) THEN <<>>
    ELSE IF shape[i] = "absent" THEN MakeInput(shape, i + 1)
    ELSE <<[k |-> DirectKeys[i],
            v |-> IF shape[i] = "empty" THEN <<>> ELSE <<"A">>]>>
             \o MakeInput(shape, i + 1)

FullInput == [i \in 1..NumLanguages |-> [k |-> LANGUAGES[i].code, v |-> <<"A">>]]

DirectInputs ==
    {FullInput} \cup { MakeInput(shape, 1) : shape \in [1..Len(DirectKeys) -> Shapes] }

InitDirect ==
    /\ session = <<>>
    /\ english_html \in Htmls
    /\ uploaded_files = <<>>
    /\ api_key = TRUE
    /\ translations \in DirectInputs
    /\ results = <<>>
    /\ idx = 1
    /\ pc = "loop"
    /\ notices = <<>>
    /\ calls = <<>>
    /\ archive = NoArchive
    /\ lang_codes = <<>>
    /\ before = <<>>

NextDirect ==
    \/ Skip
    \/ CallStart
    \/ CallReturn
    \/ CallFail
    \/ Return

SpecDirect == InitDirect /\ [][NextDirect]_vars

----------------------------------------------------------------------------
(* Properties of translate_blog *)

Codes == {LANGUAGES[i].code : i \in 1..NumLanguages}

\* code is a key of TranslationInput with non-empty content
NonEmptyInput(code) ==
    \E i \in 1..Len(translations) :
        translations[i].k = code /\ Len(translations[i].v) > 0

\* 1-based position of a registry code in the registry
RegistryIndex(code) == CHOOSE i \in 1..NumLanguages : LANGUAGES[i].code = code

Returned(code) ==
    \E j \in 1..Len(calls) : calls[j].ev = "return" /\ calls[j].code = code

\* C1: every key of TranslationOutput is a key of TranslationInput with
\* non-empty content; a code that is absent from the input, or present with
\* empty content, is never in the output.
C1_OutputOnlyFromNonEmptyInput ==
    \A j \in 1..Len(results) : NonEmptyInput(results[j].k)

\* C1 witness: a finished run with an output entry, an input key with empty
\* content and a registry code absent from the input, neither in the output.
C1_Witness ==
    /\ pc = "returned"
    /\ results # <<>>
    /\ \E i \in 1..Len(translations) :
           /\ translations[i].v = <<>>
           /\ translations[i].k \in Codes
           /\ translations[i].k \notin Keys(results)
    /\ \E c \in Codes : c \notin Keys(translations) /\ c \notin Keys(results)

\* C2: a failed call never aborts the batch: when translate_blog returns it
\* has visited all 12 registry languages, each has exactly one outcome notice
\* (missing, success or error) in registry order, and the output holds exactly
\* the languages with non-empty input whose call succeeded, in registry order;
\* until then the loop always has a next step.
C2_BatchNeverAborts ==
    /\ pc \in {"loop", "call"} =>
           ENABLED (Skip \/ CallStart \/ CallReturn \/ CallFail \/ Return)
    /\ pc = "returned" =>
        /\ Len(notices) = NumLanguages
        /\ \A i \in 1..NumLanguages :
               /\ notices[i].about = LANGUAGES[i].name
               /\ notices[i].kind \in
                      {"warning_missing", "success", "error_translating"}
               /\ notices[i].kind = "warning_missing"
                      <=> ~NonEmptyInput(LANGUAGES[i].code)
               /\ notices[i].kind = "success"
                      <=> LANGUAGES[i].code \in Keys(results)
        /\ Keys(results) = {c \in Codes : NonEmptyInput(c) /\ Returned(c)}
        /\ \A a, b \in 1..Len(results) :
               a < b => RegistryIndex(results[a].k) < RegistryIndex(results[b].k)

\* C2 witness: a returned batch in which a call failed and a later language
\* still succeeded.
C2_Witness ==
    /\ pc = "returned"
    /\ \E i, j \in 1..NumLanguages :
           /\ i < j
           /\ notices[i].kind = "error_translating"
           /\ notices[j].kind = "success"

StartsOf(log) == {j \in 1..Len(log) : log[j].ev = "start"}

\* C7: calls are serial and never retried: the log alternates start and
\* outcome of the same language, the started languages strictly follow
\* registry order (so each gets at most one call), only languages with
\* non-empty input are called, and a finished run made exactly one call per
\* registry language with non-empty input.
C7_SerialNoRetry ==
    /\ \A j \in 1..Len(calls) :
           IF j % 2 = 1
           THEN calls[j].ev = "start" /\ NonEmptyInput(calls[j].code)
           ELSE calls[j].ev \in {"return", "raise"}
                    /\ calls[j].code = calls[j - 1].code
    /\ \A a, b \in StartsOf(calls) :
           a < b => RegistryIndex(calls[a].code) < RegistryIndex(calls[b].code)
    /\ pc = "call" <=> Len(calls) % 2 = 1
    /\ pc = "returned" =>
           Cardinality(StartsOf(calls))
               = Cardinality({c \in Codes : NonEmptyInput(c)})

\* C7 witness: a finished run with a failed call, a skipped language and
\* at least two calls.
C7_Witness ==
    /\ pc = "returned"
    /\ Cardinality(StartsOf(calls)) >= 2
    /\ \E j \in 1..Len(calls) : calls[j].ev = "raise"
    /\ \E c \in Codes : ~NonEmptyInput(c)

----------------------------------------------------------------------------
(* Properties of the button handler and the session *)

InRun == pc \in {"loop", "call", "returned", "done"}

\* sub occurs in s, said with a prefix and a suffix around it
IsSubstring(sub, s) ==
    \E a \in 0..Len(s) : \E b \in a..Len(s) :
        SubSeq(s, 1, a) \o sub \o SubSeq(s, b + 1, Len(s)) = s

\* file i was read and has non-empty text
Usable(i) ==
    /\ read_file_content(uploaded_files[i]).ok
    /\ Len(read_file_content(uploaded_files[i]).text) > 0

TextOf(i) == read_file_content(uploaded_files[i]).text

EntriesFor(d, code) == {t \in 1..Len(d) : d[t].k = code}

Raised == {j \in 1..Len(calls) : calls[j].ev = "raise"}

KindCount(kind) == Cardinality({n \in 1..Len(notices) : notices[n].kind = kind})

\* C3 as stated: all 12 required files uploaded with valid content and the
\* service raising for exactly one language give 11 stored outputs, one
\* failure notice and an archive of 11 entries.
C3_ElevenOfTwelve ==
    (pc = "done" /\ uploaded_files = AllTwelve /\ Cardinality(Raised) = 1)
        => /\ Len(session) = 11
           /\ KindCount("error_translating") = 1
           /\ Len(archive) = 11

\* C4 as stated: when two files match the same code, TranslationInput holds
\* for that code the content of the later file, whatever that file is.
C4_LaterFileAlwaysStored ==
    InRun =>
        \A i, j \in 1..Len(uploaded_files) :
            ( /\ i < j
              /\ lang_codes[i] # NoMatch
              /\ lang_codes[i] = lang_codes[j]
              /\ \A k \in (j + 1)..Len(uploaded_files) :
                     lang_codes[k] # lang_codes[j] )
            => \E t \in 1..Len(translations) :
                   /\ translations[t].k = lang_codes[j]
                   /\ translations[t].v = TextOf(j)

\* C4 amended: TranslationInput holds for a code exactly one entry, the text
\* of the last file in upload order among the files that match the code and
\* were read with non-empty text, and no entry when there is no such file;
\* the only read errors are those of unreadable files, none for a duplicate.
C4_LastUsableFileWins ==
    InRun =>
        /\ \A code \in Codes :
               LET usable == {i \in 1..Len(uploaded_files) :
                                 lang_codes[i] = code /\ Usable(i)}
               IN  IF usable = {}
                   THEN EntriesFor(translations, code) = {}
                   ELSE /\ Cardinality(EntriesFor(translations, code)) = 1
                        /\ \A t \in EntriesFor(translations, code) :
                               \E j \in usable :
                                   /\ \A i \in usable : i <= j
                                   /\ translations[t].v = TextOf(j)
        /\ KindCount("error_reading")
               = Cardinality({i \in 1..Len(uploaded_files) :
                                 /\ lang_codes[i] # NoMatch
                                 /\ ~read_file_content(uploaded_files[i]).ok})

\* C4 witness: two readable files with different text match the same code and
\* the stored value is the later one's.
C4_Witness ==
    /\ pc = "loop"
    /\ \E i, j \in 1..Len(uploaded_files) :
           /\ i < j
           /\ lang_codes[i] = lang_codes[j]
           /\ lang_codes[i] # NoMatch
           /\ Usable(i) /\ Usable(j)
           /\ TextOf(i) # TextOf(j)
           /\ \A k \in (j + 1)..Len(uploaded_files) : lang_codes[k] # lang_codes[j]
           /\ \E t \in 1..Len(translations) : translations[t].v = TextOf(j)

\* C5: the code assigned to a file name is the first registry entry, in
\* registry order, that is a substring of the name, and it is `no match'
\* exactly when no registry code is a substring of the name.
C5_FirstMatchInRegistryOrder ==
    InRun =>
        /\ Len(lang_codes) = Len(uploaded_files)
        /\ \A i \in 1..Len(uploaded_files) :
               LET hits == {j \in 1..NumLanguages :
                               IsSubstring(LANGUAGES[j].code, uploaded_files[i].name)}
               IN  IF hits = {}
                   THEN lang_codes[i] = NoMatch
                   ELSE \E j \in hits :
                            /\ \A h \in hits : j <= h
                            /\ lang_codes[i] = LANGUAGES[j].code

\* C5 witness: a name that carries two codes, the later registry entry first
\* in the name, is assigned the earlier registry entry.
C5_Witness ==
    /\ pc = "loop"
    /\ uploaded_files[1].name = rus \o <<"_">> \o tha \o TxtExt
    /\ lang_codes[1] = tha

\* C6: a press with empty English HTML, with no files or without the
\* credential reports one error, makes no service call and leaves the stored
\* TranslationOutput exactly as it was; a run only starts with all three.
C6_RejectedRunNoEffect ==
    /\ pc \in {"rejected", "stopped"} =>
           /\ session = before
           /\ calls = <<>>
           /\ results = <<>>
           /\ Len(notices) = 1
           /\ notices[1].kind \in {"error_no_html", "error_no_files", "error_no_key"}
           /\ (english_html = <<>> \/ uploaded_files = <<>> \/ ~api_key)
    /\ InRun => (english_html # <<>> /\ uploaded_files # <<>> /\ api_key)

\* C6 witness: a press with no files uploaded, in a session that holds
\* translations of an earlier run.
C6_Witness ==
    /\ pc = "rejected"
    /\ english_html # <<>>
    /\ uploaded_files = <<>>
    /\ session # <<>>

\* C8: after a run the stored TranslationOutput is that run's result and
\* nothing else: its keys are the languages whose call returned in this run.
C8_StoredReplacedWholesale ==
    pc = "done" =>
        /\ session = results
        /\ Keys(session) = {c \in Codes : Returned(c)}

\* C8 witness: a language stored by an earlier run is gone after a run in
\* which it was missing or failed.
C8_Witness ==
    /\ pc = "done"
    /\ \E c \in Keys(before) : c \notin Keys(session)

\* C9: the archive has one entry per key of the mapping, named
\* marvel_snap_blog_{code}.html and holding the HTML stored for the code,
\* with pairwise distinct names, in the mapping's order.
C9_ArchiveMirrorsOutput ==
    (pc = "done" /\ session # <<>>) =>
        /\ Len(archive) = Len(session)
        /\ \A i \in 1..Len(archive) :
               LET n == archive[i].name
               IN  /\ Len(n) = Len(ZipPrefix) + Len(session[i].k) + Len(HtmlExt)
                   /\ SubSeq(n, 1, Len(ZipPrefix)) = ZipPrefix
                   /\ SubSeq(n, Len(ZipPrefix) + 1, Len(n) - Len(HtmlExt)) = session[i].k
                   /\ SubSeq(n, Len(n) - Len(HtmlExt) + 1, Len(n)) = HtmlExt
                   /\ archive[i].data = session[i].v
        /\ \A i, j \in 1..Len(archive) :
               i # j => archive[i].name # archive[j].name

\* C9 witness: an archive of several entries.
C9_Witness ==
    /\ pc = "done"
    /\ Len(session) >= 3
    /\ Len(archive) >= 3

====
